---- MODULE Spec2Model ----
(***************************************************************************)
(* A model of the chibivue renderer: the virtual-node patch engine with    *)
(* its component lifecycle (runtime-core/renderer), the DOM prop adapter   *)
(* (runtime-dom/patchProp and modules/events), and the reactive effect     *)
(* system that drives re-renders.                                          *)
(*                                                                         *)
(* JavaScript objects live in heaps: vnodes, nodes (host nodes), invokers  *)
(* and instances are sequences indexed by object identity; reference 0 is  *)
(* null and reference -1 is undefined.  Every operation of the renderer is *)
(* an operator from a machine state (a record of the heaps) to the machine *)
(* state it leaves behind; a thrown TypeError is the field fault, which    *)
(* every later step of the same call stack passes through untouched.       *)
(***************************************************************************)
EXTENDS Integers, Sequences, FiniteSets, TLC

VARIABLES
    vnodes,        \* heap of VNode objects
    nodes,         \* heap of host nodes (the DOM); node 1 is the container
    invokers,      \* heap of event invokers: invokers[i] is invoker.value
    instances,     \* heap of ComponentInternalInstance objects
    proxy,         \* the reactive state object read by render functions
    depStore,      \* dependency store: key -> effects subscribed, in order
    activeEffect,  \* the effect whose run() is in progress (0: none)
    log,           \* RendererOptions calls made by the last operation
    domLog,        \* patchEvent/patchAttr/listener calls of the last operation
    trace,         \* patch(n1, n2, container) calls of the last operation
    fault,         \* "none", or the error thrown out of the last operation
    rendered,      \* the effects whose render function the last operation ran
    handled,       \* user handlers called by the last dispatched event
    lastOp,        \* the last operation and its arguments
    rootDef,       \* the root component definition given to render()
    rootN1,        \* the variable n1 of the component-less render()
    ncalls,        \* number of operations performed so far
    latest,        \* per rawName, the value of the latest patchEvent call
    readLog,       \* per run of a render function so far, the effect and the
                   \* reactive properties it read
    pc             \* "start" before render() is called and "live" after
                   \* ("startRoot", "liveRoot": the component-less render())

vars == << vnodes, nodes, invokers, instances, proxy, depStore, activeEffect,
           log, domLog, trace, fault, rendered, handled, lastOp, rootDef,
           rootN1, ncalls, latest, readLog, pc >>

----------------------------------------------------------------------------
(* Bounds *)

\* reactive writes after the initial render
MaxOps == 2
\* calls of patchEvent and dispatched events on one element
MaxDomCalls == 4
\* longest generated prop key, in characters
MaxKeyLen == 3

----------------------------------------------------------------------------
(* JavaScript values *)

Null == 0
Undef == -1

\* loose equality with null: x == null
IsNullish(ref) == ref = Null \/ ref = Undef

\* Prop values are atoms.  "undefined" and "null" are the JavaScript values of
\* those names; "h1" and "h2" are two distinct function objects.
JsUndefined == "undefined"
JsNull == "null"
Truthy(v) == v # JsUndefined /\ v # JsNull

\* Strings that the code inspects character by character are sequences of
\* one-character strings.
UpperLetters ==
    << "A", "B", "C", "D", "E", "F", "G", "H", "I", "J", "K", "L", "M",
       "N", "O", "P", "Q", "R", "S", "T", "U", "V", "W", "X", "Y", "Z" >>

LowerLetters ==
    << "a", "b", "c", "d", "e", "f", "g", "h", "i", "j", "k", "l", "m",
       "n", "o", "p", "q", "r", "s", "t", "u", "v", "w", "x", "y", "z" >>

LowerAZ == { LowerLetters[i] : i \in 1..26 }

LowerOf(ch) ==
    IF \E i \in 1..26 : UpperLetters[i] = ch
    THEN LowerLetters[CHOOSE i \in 1..26 : UpperLetters[i] = ch]
    ELSE ch

toLocaleLowerCase(str) == [ i \in 1..Len(str) |-> LowerOf(str[i]) ]

slice(str, from) ==
    IF from >= Len(str) THEN << >> ELSE SubSeq(str, from + 1, Len(str))

K_id == << "i", "d" >>
K_class == << "c", "l", "a", "s", "s" >>
K_onClick == << "o", "n", "C", "l", "i", "c", "k" >>
K_msg == << "m", "s", "g" >>

----------------------------------------------------------------------------
(* Objects with string keys: insertion-ordered lists of entries *)

HasKey(obj, key) == \E i \in 1..Len(obj) : obj[i].key = key

\* obj[key]; undefined when the key is absent
Get(obj, key, undef) ==
    IF HasKey(obj, key)
    THEN obj[CHOOSE i \in 1..Len(obj) : obj[i].key = key].value
    ELSE undef

\* obj[key] = value
Put(obj, key, value) ==
    IF HasKey(obj, key)
    THEN [ i \in 1..Len(obj) |->
             IF obj[i].key = key THEN [ key |-> key, value |-> value ] ELSE obj[i] ]
    ELSE Append(obj, [ key |-> key, value |-> value ])

SelectIdx(seq, keep(_)) ==
    LET F[i \in 0..Len(seq)] ==
          IF i = 0 THEN << >>
          ELSE IF keep(i) THEN Append(F[i - 1], seq[i]) ELSE F[i - 1]
    IN F[Len(seq)]

\* delete obj[key]
Del(obj, key) == SelectIdx(obj, LAMBDA i : obj[i].key # key)

----------------------------------------------------------------------------
(* Machine state threaded through the renderer's calls *)

Ok(s) == s.fault = "none"

\* Sequencing: the state that e leaves behind is the one K goes on from
Then(e, K(_)) == K(e)

Throw(s, err) == [ s EXCEPT !.fault = err ]

\* One entry of log: a call of a RendererOptions operation
Call(op, node, parent, key, value) ==
    [ op |-> op, node |-> node, parent |-> parent, key |-> key, value |-> value ]

\* One entry of domLog: a call made inside the DOM adapter
DomCall(op, node, key, value, invoker) ==
    [ op |-> op, node |-> node, key |-> key, value |-> value, invoker |-> invoker ]

Logged(s, call) == [ s EXCEPT !.log = Append(@, call) ]

DomLogged(s, call) == [ s EXCEPT !.dom = Append(@, call) ]

----------------------------------------------------------------------------
(* The host: DOM nodes and runtime-dom's node operations *)

NewNode(kind, tag, text) ==
    [ kind |-> kind, tag |-> tag, text |-> text, parent |-> Null,
      children |-> << >>, attrs |-> << >>, hasVei |-> FALSE, vei |-> << >>,
      listeners |-> << >> ]

createElement(s, tag) ==
    IF ~Ok(s) THEN s
    ELSE [ Logged(s, Call("createElement", Len(s.nd) + 1, Null, << >>, tag))
             EXCEPT !.nd = Append(@, NewNode("element", tag, "")),
                    !.ret = Len(s.nd) + 1 ]

createText(s, text) ==
    IF ~Ok(s) THEN s
    ELSE [ Logged(s, Call("createText", Len(s.nd) + 1, Null, << >>, text))
             EXCEPT !.nd = Append(@, NewNode("text", "", text)),
                    !.ret = Len(s.nd) + 1 ]

\* node.nodeValue = text
setText(s, node, text) ==
    IF ~Ok(s) THEN s
    ELSE IF IsNullish(node)
    THEN Throw(Logged(s, Call("setText", node, Null, << >>, text)), "TypeError")
    ELSE [ Logged(s, Call("setText", node, Null, << >>, text))
             EXCEPT !.nd[node].text = text ]

Without(seq, x) == SelectIdx(seq, LAMBDA i : seq[i] # x)

\* The child leaves the parent it has
Detached(nd, child) ==
    IF nd[child].parent = Null THEN nd
    ELSE [ nd EXCEPT ![nd[child].parent].children = Without(@, child) ]

\* parent.insertBefore(child, null): detach the child, then append it
insert(s, child, parent) ==
    IF ~Ok(s) THEN s
    ELSE IF IsNullish(parent) \/ IsNullish(child)
    THEN Throw(Logged(s, Call("insert", child, parent, << >>, "")), "TypeError")
    ELSE [ Logged(s, Call("insert", child, parent, << >>, ""))
             EXCEPT !.nd = [ Detached(s.nd, child)
                               EXCEPT ![parent].children = Append(@, child),
                                      ![child].parent = parent ] ]

\* node.parentNode
parentNode(s, node) ==
    IF ~Ok(s) THEN s
    ELSE IF IsNullish(node)
    THEN Throw(Logged(s, Call("parentNode", node, Null, << >>, "")), "TypeError")
    ELSE [ Logged(s, Call("parentNode", node, Null, << >>, ""))
             EXCEPT !.ret = s.nd[node].parent ]

----------------------------------------------------------------------------
(* runtime-dom: modules/events *)

\* el.addEventListener(event, handler): a listener already registered for
\* the event is not registered twice
addEventListener(s, el, event, handler) ==
    Then(DomLogged(s, DomCall("addEventListener", el, event, "", handler)), LAMBDA s1 :
    IF \E i \in 1..Len(s1.nd[el].listeners) :
          s1.nd[el].listeners[i] = [ event |-> event, invoker |-> handler ]
    THEN s1
    ELSE [ s1 EXCEPT !.nd[el].listeners =
                        Append(@, [ event |-> event, invoker |-> handler ]) ])

removeEventListener(s, el, event, handler) ==
    [ DomLogged(s, DomCall("removeEventListener", el, event, "", handler))
        EXCEPT !.nd[el].listeners = Without(@, [ event |-> event, invoker |-> handler ]) ]

\* remove the 'on' prefix
parseName(rowName) == toLocaleLowerCase(slice(rowName, 2))

\* The invoker is a new function object whose value field is the handler
\* (rawName records which call of patchEvent made the invoker)
createInvoker(s, initialValue) ==
    [ s EXCEPT !.inv = Append(@, [ value |-> initialValue, rawName |-> << >>,
                                   initialValue |-> initialValue ]),
               !.ret = Len(s.inv) + 1 ]

\* A variant of patchEvent that makes and registers a new invoker for a
\* handler whether or not an invoker exists
patchEvent_alwaysAdd(s, el, rawName, value) ==
    IF ~Ok(s) THEN s
    ELSE IF IsNullish(el)
    THEN Throw(DomLogged(s, DomCall("patchEvent", el, rawName, value, Null)), "TypeError")
    ELSE
    Then([ DomLogged(s, DomCall("patchEvent", el, rawName, value, Null))
             EXCEPT !.nd[el].hasVei = TRUE ], LAMBDA s1 :
    Then(Get(s1.nd[el].vei, rawName, Undef), LAMBDA existingInvoker :
    IF Truthy(value)
    THEN Then(createInvoker(s1, value), LAMBDA s2 :
         addEventListener([ s2 EXCEPT !.nd[el].vei = Put(@, rawName, s2.ret),
                                      !.inv[s2.ret].rawName = rawName ],
                          el, parseName(rawName), s2.ret))
    ELSE IF ~IsNullish(existingInvoker)
    THEN Then(removeEventListener(s1, el, parseName(rawName), existingInvoker),
              LAMBDA s2 : [ s2 EXCEPT !.nd[el].vei = Put(@, rawName, Undef) ])
    ELSE s1))

\* A variant of patchEvent that removes the listener and leaves the invoker
\* in el._vei
patchEvent_keepInvoker(s, el, rawName, value) ==
    IF ~Ok(s) THEN s
    ELSE IF IsNullish(el)
    THEN Throw(DomLogged(s, DomCall("patchEvent", el, rawName, value, Null)), "TypeError")
    ELSE
    Then([ DomLogged(s, DomCall("patchEvent", el, rawName, value, Null))
             EXCEPT !.nd[el].hasVei = TRUE ], LAMBDA s1 :
    Then(Get(s1.nd[el].vei, rawName, Undef), LAMBDA existingInvoker :
    IF Truthy(value) /\ ~IsNullish(existingInvoker)
    THEN [ s1 EXCEPT !.inv[existingInvoker].value = value ]
    ELSE IF Truthy(value)
    THEN Then(createInvoker(s1, value), LAMBDA s2 :
         addEventListener([ s2 EXCEPT !.nd[el].vei = Put(@, rawName, s2.ret),
                                      !.inv[s2.ret].rawName = rawName ],
                          el, parseName(rawName), s2.ret))
    ELSE IF ~IsNullish(existingInvoker)
    THEN removeEventListener(s1, el, parseName(rawName), existingInvoker)
    ELSE s1))

patchEvent(s, el, rawName, value) ==
    IF ~Ok(s) THEN s
    ELSE IF IsNullish(el)
    THEN Throw(DomLogged(s, DomCall("patchEvent", el, rawName, value, Null)), "TypeError")
    ELSE
    Then([ DomLogged(s, DomCall("patchEvent", el, rawName, value, Null))
             EXCEPT !.nd[el].hasVei = TRUE ], LAMBDA s1 :
    Then(Get(s1.nd[el].vei, rawName, Undef), LAMBDA existingInvoker :
    IF Truthy(value) /\ ~IsNullish(existingInvoker)
    THEN \* patch
         [ s1 EXCEPT !.inv[existingInvoker].value = value ]
    ELSE IF Truthy(value)
    THEN \* add
         Then(createInvoker(s1, value), LAMBDA s2 :
         addEventListener([ s2 EXCEPT !.nd[el].vei = Put(@, rawName, s2.ret),
                                      !.inv[s2.ret].rawName = rawName ],
                          el, parseName(rawName), s2.ret))
    ELSE IF ~IsNullish(existingInvoker)
    THEN \* remove
         Then(removeEventListener(s1, el, parseName(rawName), existingInvoker),
              LAMBDA s2 : [ s2 EXCEPT !.nd[el].vei = Put(@, rawName, Undef) ])
    ELSE s1))

----------------------------------------------------------------------------
(* runtime-dom: modules/attrs and patchProp *)

\* value == null removes the attribute, any other value sets it
patchAttr(s, el, key, value) ==
    IF ~Ok(s) THEN s
    ELSE Then(DomLogged(s, DomCall("patchAttr", el, key, value, Null)), LAMBDA s1 :
         IF IsNullish(el) THEN Throw(s1, "TypeError")
         ELSE IF ~Truthy(value)
         THEN [ s1 EXCEPT !.nd[el].attrs = Del(@, key) ]
         ELSE [ s1 EXCEPT !.nd[el].attrs = Put(@, key, value) ])

\* A variant of isOn that tests the prefix "on" only
isOn_prefixOnly(key) ==
    /\ Len(key) >= 2
    /\ key[1] = "o"
    /\ key[2] = "n"

\* onRE = /^on[^a-z]/
isOn(key) ==
    /\ Len(key) >= 3
    /\ key[1] = "o"
    /\ key[2] = "n"
    /\ key[3] \notin LowerAZ

patchProp(s, el, key, value) ==
    IF ~Ok(s) THEN s
    ELSE IF isOn(key)
    THEN patchEvent(Logged(s, Call("patchProp", el, Null, key, value)), el, key, value)
    ELSE patchAttr(Logged(s, Call("patchProp", el, Null, key, value)), el, key, value)

----------------------------------------------------------------------------
(* runtime-core: vnodes *)

\* props is an optional object
NoProps == [ present |-> FALSE, entries |-> << >> ]
Props(entries) == [ present |-> TRUE, entries |-> entries ]
P1(k, v) == Props(<< [ key |-> k, value |-> v ] >>)
P2(k1, v1, k2, v2) ==
    Props(<< [ key |-> k1, value |-> v1 ], [ key |-> k2, value |-> v2 ] >>)

\* A reference held where a VNode is expected but that is a primitive string:
\* reading any property of it gives undefined
StrRef == -2

\* One entry of a children array: a raw string, or a reference to a VNode
RawChild(text) == [ raw |-> TRUE, text |-> text, ref |-> Null ]
RefChild(ref) == [ raw |-> FALSE, text |-> "", ref |-> ref ]

\* createVNode(type, props, children): type is the Text symbol, a tag name or a
\* component definition (named by tag); children is the payload of a Text vnode
createVNode(s, type, tag, props, text, children) ==
    [ s EXCEPT !.vn = Append(@, [ type |-> type, tag |-> tag, props |-> props,
                                  text |-> text, children |-> children,
                                  el |-> Undef, component |-> Undef ]),
               !.ret = Len(s.vn) + 1 ]

\* normalizeVNode(child): an object is a VNode already, anything else becomes
\* a Text vnode of its string form
normalizeVNode(s, child) ==
    IF ~Ok(s) THEN s
    ELSE IF child.raw
    THEN createVNode(s, "Text", "", NoProps, child.text, << >>)
    ELSE [ s EXCEPT !.ret = child.ref ]

\* n.el, n.children, n.props and n.component of a reference that is not null
\* or undefined
ElOf(s, n) == IF n = StrRef THEN Undef ELSE s.vn[n].el
ComponentOf(s, n) == IF n = StrRef THEN Undef ELSE s.vn[n].component
PropsOf(s, n) == IF n = StrRef THEN NoProps ELSE s.vn[n].props

\* c1[i] of an old children array: undefined past its end
ChildAt(children, i) ==
    IF i > Len(children) THEN Undef
    ELSE IF children[i].raw THEN StrRef
    ELSE children[i].ref

----------------------------------------------------------------------------
(* Component definitions given to the renderer: the application's code *)

\* A render function's result before its vnodes are allocated
TRaw(text) ==
    [ type |-> "Raw", tag |-> "", props |-> NoProps, text |-> text, children |-> << >> ]
TText(text) ==
    [ type |-> "Text", tag |-> "", props |-> NoProps, text |-> text, children |-> << >> ]
TElem(tag, props, children) ==
    [ type |-> "Element", tag |-> tag, props |-> props, text |-> "", children |-> children ]
TComp(def, props) ==
    [ type |-> "Component", tag |-> def, props |-> props, text |-> "", children |-> << >> ]

\* Children of the App component's root element: the first child is a string,
\* the second an element, the third a component
Slot1 == { TRaw("a"), TRaw("b") }
Slot2 == { TElem("span", P2(K_id, "x", K_class, "c"), << >>) }
Slot3 == { TComp("Child", P1(K_msg, "m1")), TComp("Child", P1(K_msg, "m2")),
           TComp("Bare", NoProps) }

KidLists ==
    { << >> } \cup { << k1 >> : k1 \in Slot1 }
    \cup { << k1, k2 >> : k1 \in Slot1, k2 \in Slot2 }
    \cup { << k1, k2, k3 >> : k1 \in Slot1, k2 \in Slot2, k3 \in Slot3 }

RootProps ==
    { NoProps,
      P1(K_id, "x"), P1(K_id, JsUndefined),
      P2(K_id, "x", K_class, "c"), P2(K_id, "x", K_class, "d"),
      P1(K_onClick, "h1"), P1(K_onClick, "h2") }

Views ==
    { TElem("div", p, << TRaw("a") >>) : p \in RootProps }
    \cup { TElem("div", NoProps, kids) : kids \in KidLists }

Letters == { "a", "b" }
Flags == { "on", "off" }

\* The views of the Page component have no component in them
PageViews == { v \in Views : Len(v.children) < 3 }

ProxyKeys == { "view", "flag", "a", "b", "c" }

\* The values the application gives a property of the reactive state
ValuesOf(def, key) ==
    CASE key = "view" -> IF def = "Page" THEN PageViews ELSE Views
      [] key = "flag" -> Flags
      [] OTHER -> Letters

\* The properties that a root definition's setup puts in the reactive state
\* and that the application writes later
StateKeys(def) ==
    CASE def = "App" -> { "view", "c" }
      [] def = "Page" -> { "view" }
      [] def = "Cond" -> { "flag", "a", "b" }
      [] def = "Pair" -> { "a", "b" }
      [] def = "Bare" -> { "a" }
      [] OTHER -> { }

\* The pairs of properties the application writes in one synchronous block
BlockKeys(def) ==
    IF def \in { "Cond", "Pair" }
    THEN { pair \in StateKeys(def) \X StateKeys(def) : pair[1] # pair[2] }
    ELSE { }

RootDefs == { "App", "Cond", "Pair", "Bare" }
LegacyDefs == { "Page", "Cond", "Pair", "Bare" }

\* What the DOM adapter is called with directly
KeyAlphabet == { "o", "n", "a", "C", "-" }
K_on == << "o", "n" >>
K_onclick == << "o", "n", "c", "l", "i", "c", "k" >>
K_onCLICK == << "o", "n", "C", "L", "I", "C", "K" >>
DomKeys ==
    UNION { [ 1..k -> KeyAlphabet ] : k \in 0..MaxKeyLen }
    \cup { K_id, K_class, K_onClick, K_onclick, K_onCLICK }
EventNames == { K_onClick, K_onCLICK }
DomValues == { "h1", "h2", JsNull }
\* (no patchEvent call was made for the rawName yet)
NoCall == "none"

\* component.setup
HasSetup(def) == def # "Bare"

\* The reactive properties a definition's render function reads, in order
DefReads(def, px) ==
    CASE def \in { "App", "Page" } -> << "view" >>
      [] def = "Cond" -> IF px.flag = "on" THEN << "flag", "a" >> ELSE << "flag", "b" >>
      [] def = "Pair" -> << "a", "b" >>
      [] def = "Child" -> << "c" >>
      [] OTHER -> << >>

\* The tree a definition's render function returns
DefTree(def, px, props) ==
    CASE def \in { "App", "Page" } -> px.view
      [] def = "Cond" -> TText(IF px.flag = "on" THEN px.a ELSE px.b)
      [] def = "Pair" -> TElem("div", NoProps, << TRaw(px.a), TRaw(px.b) >>)
      [] def = "Child" ->
           TElem("p", NoProps, << TRaw(Get(props, K_msg, JsUndefined)), TRaw(px.c) >>)
      [] OTHER -> TText("")

----------------------------------------------------------------------------
(* Calling a render function: h() allocates the vnodes of the returned tree *)

RECURSIVE h(_, _), hChildren(_, _, _, _)

hChildren(s, kids, i, acc) ==
    IF i > Len(kids) THEN [ s EXCEPT !.acc = acc ]
    ELSE IF kids[i].type = "Raw"
    THEN hChildren(s, kids, i + 1, Append(acc, RawChild(kids[i].text)))
    ELSE Then(h(s, kids[i]), LAMBDA s1 :
              hChildren(s1, kids, i + 1, Append(acc, RefChild(s1.ret))))

h(s, tree) ==
    Then(hChildren(s, tree.children, 1, << >>), LAMBDA s1 :
         createVNode(s1, tree.type, tree.tag, tree.props, tree.text, s1.acc))

----------------------------------------------------------------------------
(* reactivity: the dependency store, the reactive proxy, ReactiveEffect *)

\* track(target, key): subscribe the active effect
track(s, key) ==
    IF s.active = Null \/ \E i \in 1..Len(s.deps[key]) : s.deps[key][i] = s.active
    THEN s
    ELSE [ s EXCEPT !.deps[key] = Append(@, s.active) ]

RECURSIVE trackAll(_, _, _)
trackAll(s, keys, i) ==
    IF i > Len(keys) THEN s ELSE trackAll(track(s, keys[i]), keys, i + 1)

\* The effect leaves every dependency set it is a member of
cleanupEffect(s, effect) ==
    [ s EXCEPT !.deps = [ k \in DOMAIN s.deps |-> Without(s.deps[k], effect) ] ]

----------------------------------------------------------------------------
(* runtime-core: component instances *)

\* The effect made by the component-less render(), which has no instance
RootEffect == -3

createComponentInstance(s, vnode) ==
    [ s EXCEPT !.inst = Append(@, [ vnode |-> vnode, next |-> Null, props |-> << >>,
                                    render |-> "", subTree |-> Null,
                                    isMounted |-> FALSE,
                                    initialVNode |-> Null, container |-> Null,
                                    setupCalls |-> 0, renderCalls |-> 0 ]),
               !.ret = Len(s.inst) + 1 ]

initProps(s, instance, props) ==
    [ s EXCEPT !.inst[instance].props = props.entries ]

RECURSIVE assign(_, _, _)
\* Object.assign(obj, src)
assign(obj, src, i) ==
    IF i > Len(src) THEN obj
    ELSE assign(Put(obj, src[i].key, src[i].value), src, i + 1)

\* The new values are merged into the props object the instance already has
updateProps(s, instance, props) ==
    [ s EXCEPT !.inst[instance].props = assign(@, props.entries, 1) ]

\* (a run of a render function, recorded in readLog)
Read(effect, keys) ==
    [ effect |-> effect, keys |-> keys, branch |-> "", prev |-> Null, tree |-> Null,
      done |-> FALSE ]

\* (the branch that the run takes, the tree it diffs against and the tree it
\* rendered are recorded in readLog)
Noted(s, idx, branch, prev, tree) ==
    IF Ok(s)
    THEN [ s EXCEPT !.reads[idx].branch = branch, !.reads[idx].prev = prev,
                    !.reads[idx].tree = tree ]
    ELSE s

\* (the return of the run's patch call is recorded in readLog)
Done(s, idx) == IF Ok(s) THEN [ s EXCEPT !.reads[idx].done = TRUE ] ELSE s

\* instance.render(): the render function reads the reactive state, which
\* subscribes the running effect, and builds a new tree
callRender(s, instance) ==
    IF ~Ok(s) THEN s
    ELSE IF s.inst[instance].render = "" THEN Throw(s, "TypeError")
    ELSE h(trackAll([ s EXCEPT !.inst[instance].renderCalls = @ + 1,
                               !.rendered = Append(@, instance),
                               !.reads = Append(@, Read(instance,
                                            DefReads(s.inst[instance].render, s.px))) ],
                    DefReads(s.inst[instance].render, s.px), 1),
           DefTree(s.inst[instance].render, s.px, s.inst[instance].props))

----------------------------------------------------------------------------
(* runtime-core: createRenderer *)

hostPatchProp(s, el, key, value) == patchProp(s, el, key, value)
hostCreateElement(s, type) == createElement(s, type)
hostCreateText(s, text) == createText(s, text)
hostSetText(s, node, text) == setText(s, node, text)
hostInsert(s, child, parent) == insert(s, child, parent)
hostParentNode(s, node) == parentNode(s, node)

RECURSIVE patch(_, _, _, _), processElement(_, _, _, _), mountElement(_, _, _),
          mountChildren(_, _, _, _), patchElement(_, _, _),
          patchChildren(_, _, _, _, _), processComponent(_, _, _, _),
          mountComponent(_, _, _), setupRenderEffect(_, _, _, _),
          componentUpdateFn(_, _), updateComponent(_, _, _), run(_, _),
          rootUpdateComponent(_)

\* vnode.el = el
SetEl(s, vnode, el) == IF Ok(s) THEN [ s EXCEPT !.vn[vnode].el = el ] ELSE s

\* n1.children of an old Text vnode
TextOf(s, n) == IF n = StrRef THEN JsUndefined ELSE s.vn[n].text

\* A variant of processText that writes the text of a mounted node without
\* comparing the payloads
processText_noCompare(s, n1, n2, container) ==
    IF ~Ok(s) THEN s
    ELSE IF IsNullish(n1)
    THEN Then(hostCreateText(s, s.vn[n2].text), LAMBDA s1 :
              hostInsert(SetEl(s1, n2, s1.ret), s1.ret, container))
    ELSE hostSetText(SetEl(s, n2, ElOf(s, n1)), ElOf(s, n1), s.vn[n2].text)

\* A variant of processText that makes a new host node whether or not an old
\* one is there
processText_remount(s, n1, n2, container) ==
    IF ~Ok(s) THEN s
    ELSE Then(hostCreateText(s, s.vn[n2].text), LAMBDA s1 :
              hostInsert(SetEl(s1, n2, s1.ret), s1.ret, container))

processText(s, n1, n2, container) ==
    IF ~Ok(s) THEN s
    ELSE IF IsNullish(n1)
    THEN Then(hostCreateText(s, s.vn[n2].text), LAMBDA s1 :
              hostInsert(SetEl(s1, n2, s1.ret), s1.ret, container))
    ELSE IF s.vn[n2].text # TextOf(s, n1)
    THEN hostSetText(SetEl(s, n2, ElOf(s, n1)), ElOf(s, n1), s.vn[n2].text)
    ELSE SetEl(s, n2, ElOf(s, n1))

RECURSIVE mountProps(_, _, _, _)
\* for (const key in props) hostPatchProp(el, key, props[key])
mountProps(s, el, entries, i) ==
    IF ~Ok(s) \/ i > Len(entries) THEN s
    ELSE mountProps(hostPatchProp(s, el, entries[i].key, entries[i].value),
                    el, entries, i + 1)

\* n1.props?.[key]
OldProp(oldProps, key) ==
    IF oldProps.present THEN Get(oldProps.entries, key, JsUndefined) ELSE JsUndefined

RECURSIVE patchProps(_, _, _, _, _)
\* The condition of the loop is (props[key] !== n1.props?.[key]) ?? {}: the
\* comparison binds tighter than ??, and its result is never null or undefined
patchProps(s, el, entries, oldProps, i) ==
    IF ~Ok(s) \/ i > Len(entries) THEN s
    ELSE patchProps(IF entries[i].value # OldProp(oldProps, entries[i].key)
                    THEN hostPatchProp(s, el, entries[i].key, entries[i].value)
                    ELSE s,
                    el, entries, oldProps, i + 1)

\* (the call is recorded in trace)
Entered(s, n1, n2, container) ==
    [ s EXCEPT !.trace = Append(@, [ n1 |-> n1, n2 |-> n2, container |-> container,
                                     from |-> Len(s.log), to |-> -1 ]) ]

\* (the call's return is recorded in trace)
Returned(s, idx) == IF Ok(s) THEN [ s EXCEPT !.trace[idx].to = Len(s.log) ] ELSE s

patch(s, n1, n2, container) ==
    IF ~Ok(s) THEN s
    ELSE Returned(
           IF s.vn[n2].type = "Text"
           THEN processText(Entered(s, n1, n2, container), n1, n2, container)
           ELSE IF s.vn[n2].type = "Element"
           THEN processElement(Entered(s, n1, n2, container), n1, n2, container)
           ELSE IF s.vn[n2].type = "Component"
           THEN processComponent(Entered(s, n1, n2, container), n1, n2, container)
           ELSE Entered(s, n1, n2, container),
           Len(s.trace) + 1)

processElement(s, n1, n2, container) ==
    IF n1 = Null THEN mountElement(s, n2, container) ELSE patchElement(s, n1, n2)

\* A variant of mountElement that inserts the element into its parent before
\* it mounts the children
mountElement_insertFirst(s, vnode, container) ==
    IF ~Ok(s) THEN s
    ELSE Then(hostCreateElement(s, s.vn[vnode].tag), LAMBDA s1 :
         Then(mountChildren(hostInsert(SetEl(s1, vnode, s1.ret), s1.ret, container),
                            vnode, s1.ret, 1), LAMBDA s2 :
         IF s.vn[vnode].props.present
         THEN mountProps(s2, s1.ret, s.vn[vnode].props.entries, 1)
         ELSE s2))

mountElement(s, vnode, container) ==
    IF ~Ok(s) THEN s
    ELSE Then(hostCreateElement(s, s.vn[vnode].tag), LAMBDA s1 :
         Then(mountChildren(SetEl(s1, vnode, s1.ret), vnode, s1.ret, 1), LAMBDA s2 :
         hostInsert(IF s.vn[vnode].props.present
                    THEN mountProps(s2, s1.ret, s.vn[vnode].props.entries, 1)
                    ELSE s2,
                    s1.ret, container)))

\* children[i] = child
SetChild(s, vnode, i, child) ==
    IF Ok(s) THEN [ s EXCEPT !.vn[vnode].children[i] = RefChild(child) ] ELSE s

\* children is the children array of vnode
mountChildren(s, vnode, container, i) ==
    IF ~Ok(s) \/ i > Len(s.vn[vnode].children) THEN s
    ELSE Then(normalizeVNode(s, s.vn[vnode].children[i]), LAMBDA s1 :
         mountChildren(patch(SetChild(s1, vnode, i, s1.ret), Null, s1.ret, container),
                       vnode, container, i + 1))

RECURSIVE unsetRemoved(_, _, _, _, _)
\* hostPatchProp(el, key, null) for every key of the old props that the new
\* props do not have
unsetRemoved(s, el, oldEntries, props, i) ==
    IF ~Ok(s) \/ i > Len(oldEntries) THEN s
    ELSE unsetRemoved(IF HasKey(props.entries, oldEntries[i].key) THEN s
                      ELSE hostPatchProp(s, el, oldEntries[i].key, JsNull),
                      el, oldEntries, props, i + 1)

\* A variant of patchElement that also unsets the props that n2 dropped
patchElement_unsetRemoved(s, n1, n2) ==
    IF ~Ok(s) THEN s
    ELSE IF n1 = Undef THEN Throw(s, "TypeError")
    ELSE Then(patchChildren(SetEl(s, n2, ElOf(s, n1)), n1, n2, ElOf(s, n1), 1), LAMBDA s2 :
         unsetRemoved(IF s.vn[n2].props.present
                      THEN patchProps(s2, ElOf(s, n1), s.vn[n2].props.entries,
                                      PropsOf(s, n1), 1)
                      ELSE s2,
                      ElOf(s, n1), PropsOf(s, n1).entries, s.vn[n2].props, 1))

\* A variant of patchElement that does not give n2 the host node of n1
patchElement_noEl(s, n1, n2) ==
    IF ~Ok(s) THEN s
    ELSE IF n1 = Undef THEN Throw(s, "TypeError")
    ELSE Then(patchChildren(s, n1, n2, ElOf(s, n1), 1), LAMBDA s2 :
         IF s.vn[n2].props.present
         THEN patchProps(s2, ElOf(s, n1), s.vn[n2].props.entries, PropsOf(s, n1), 1)
         ELSE s2)

patchElement(s, n1, n2) ==
    IF ~Ok(s) THEN s
    ELSE IF n1 = Undef THEN Throw(s, "TypeError")
    ELSE Then(patchChildren(SetEl(s, n2, ElOf(s, n1)), n1, n2, ElOf(s, n1), 1), LAMBDA s2 :
         IF s.vn[n2].props.present
         THEN patchProps(s2, ElOf(s, n1), s.vn[n2].props.entries, PropsOf(s, n1), 1)
         ELSE s2)

\* A variant of patchChildren that, past the end of the new list, moves the
\* host nodes of the old children that are left to the element's parent
patchChildren_moveStale(s, n1, n2, container, i) ==
    IF ~Ok(s) THEN s
    ELSE IF i > Len(s.vn[n2].children)
    THEN IF n1 > 0 /\ ChildAt(s.vn[n1].children, i) > 0
         THEN patchChildren(hostInsert(s, ElOf(s, ChildAt(s.vn[n1].children, i)),
                                       s.nd[container].parent),
                            n1, n2, container, i + 1)
         ELSE s
    ELSE Then(normalizeVNode(s, s.vn[n2].children[i]), LAMBDA s1 :
         IF n1 = StrRef THEN Throw(SetChild(s1, n2, i, s1.ret), "TypeError")
         ELSE patchChildren(patch(SetChild(s1, n2, i, s1.ret),
                                  ChildAt(s.vn[n1].children, i), s1.ret, container),
                            n1, n2, container, i + 1))

patchChildren(s, n1, n2, container, i) ==
    IF ~Ok(s) \/ i > Len(s.vn[n2].children) THEN s
    ELSE Then(normalizeVNode(s, s.vn[n2].children[i]), LAMBDA s1 :
         IF n1 = StrRef THEN Throw(SetChild(s1, n2, i, s1.ret), "TypeError")
         ELSE patchChildren(patch(SetChild(s1, n2, i, s1.ret),
                                  ChildAt(s.vn[n1].children, i), s1.ret, container),
                            n1, n2, container, i + 1))

processComponent(s, n1, n2, container) ==
    IF n1 = Null THEN mountComponent(s, n2, container) ELSE updateComponent(s, n1, n2)

\* instance.render = component.setup(instance.props, { emit })
callSetup(s, instance, component) ==
    [ s EXCEPT !.inst[instance].render = component,
               !.inst[instance].setupCalls = @ + 1 ]

\* A variant of mountComponent that gives the instance a render function,
\* of an empty text, whether or not the definition has a setup
mountComponent_defaultRender(s, initialVNode, container) ==
    IF ~Ok(s) THEN s
    ELSE Then(createComponentInstance(s, initialVNode), LAMBDA s1 :
         Then(initProps([ s1 EXCEPT !.vn[initialVNode].component = s1.ret ],
                        s1.ret, s.vn[initialVNode].props), LAMBDA s2 :
         setupRenderEffect(callSetup(s2, s1.ret, s.vn[initialVNode].tag),
                           s1.ret, initialVNode, container)))

mountComponent(s, initialVNode, container) ==
    IF ~Ok(s) THEN s
    ELSE Then(createComponentInstance(s, initialVNode), LAMBDA s1 :
         Then(initProps([ s1 EXCEPT !.vn[initialVNode].component = s1.ret ],
                        s1.ret, s.vn[initialVNode].props), LAMBDA s2 :
         setupRenderEffect(IF HasSetup(s.vn[initialVNode].tag)
                           THEN callSetup(s2, s1.ret, s.vn[initialVNode].tag)
                           ELSE s2,
                           s1.ret, initialVNode, container)))

\* The effect's function closes over instance, initialVNode and container
setupRenderEffect(s, instance, initialVNode, container) ==
    run([ s EXCEPT !.inst[instance].initialVNode = initialVNode,
                   !.inst[instance].container = container ],
        instance)

\* instance.subTree = subTree
SetSubTree(s, instance, subTree) ==
    IF Ok(s) THEN [ s EXCEPT !.inst[instance].subTree = subTree ] ELSE s

\* A variant of Mounted that leaves instance.isMounted false
Mounted_notMarked(s, instance, initialVNode, subTree) ==
    IF Ok(s) THEN [ s EXCEPT !.vn[initialVNode].el = s.vn[subTree].el ] ELSE s

\* initialVNode.el = subTree.el; instance.isMounted = true
Mounted(s, instance, initialVNode, subTree) ==
    IF Ok(s)
    THEN [ s EXCEPT !.vn[initialVNode].el = s.vn[subTree].el,
                    !.inst[instance].isMounted = TRUE ]
    ELSE s

\* A variant of TakeNext that leaves the pending vnode in instance.next
TakeNext_keepNext(s, instance) ==
    IF s.inst[instance].next # Null
    THEN updateProps(
           [ s EXCEPT !.vn[s.inst[instance].next].el = s.vn[s.inst[instance].vnode].el,
                      !.vn[s.inst[instance].next].component = instance,
                      !.inst[instance].vnode = s.inst[instance].next ],
           instance, s.vn[s.inst[instance].next].props)
    ELSE s

\* The bookkeeping of a pending parent-driven update: if (next) { ... }
TakeNext(s, instance) ==
    IF s.inst[instance].next # Null
    THEN updateProps(
           [ s EXCEPT !.vn[s.inst[instance].next].el = s.vn[s.inst[instance].vnode].el,
                      !.vn[s.inst[instance].next].component = instance,
                      !.inst[instance].vnode = s.inst[instance].next,
                      !.inst[instance].next = Null ],
           instance, s.vn[s.inst[instance].next].props)
    ELSE s

\* A variant of componentUpdateFn that does nothing when the instance has
\* rendered earlier in the same synchronous block
componentUpdateFn_once(s, instance) ==
    IF ~Ok(s) \/ \E k \in 1..Len(s.rendered) : s.rendered[k] = instance THEN s
    ELSE IF ~s.inst[instance].isMounted
    THEN Then(callRender(s, instance), LAMBDA s1 :
         Then(normalizeVNode(s1, RefChild(s1.ret)), LAMBDA s2 :
         Mounted(Done(patch(Noted(SetSubTree(s2, instance, s2.ret), Len(s1.reads),
                                  "mount", Null, s2.ret),
                            Null, s2.ret, s.inst[instance].container),
                      Len(s1.reads)),
                 instance, s.inst[instance].initialVNode, s2.ret)))
    ELSE Then(TakeNext(s, instance), LAMBDA s1 :
         Then(callRender(s1, instance), LAMBDA s2 :
         Then(normalizeVNode(s2, RefChild(s2.ret)), LAMBDA s3 :
         Then(hostParentNode(Noted(SetSubTree(s3, instance, s3.ret), Len(s2.reads),
                                   "patch", s.inst[instance].subTree, s3.ret),
                             s.vn[s.inst[instance].subTree].el), LAMBDA s4 :
         Then(patch(s4, s.inst[instance].subTree, s3.ret, s4.ret), LAMBDA s5 :
         SetEl(Done(s5, Len(s2.reads)), s1.inst[instance].vnode,
               ElOf(s5, s3.ret)))))))

componentUpdateFn(s, instance) ==
    IF ~Ok(s) THEN s
    ELSE IF ~s.inst[instance].isMounted
    THEN \* mount process
         Then(callRender(s, instance), LAMBDA s1 :
         Then(normalizeVNode(s1, RefChild(s1.ret)), LAMBDA s2 :
         Mounted(Done(patch(Noted(SetSubTree(s2, instance, s2.ret), Len(s1.reads),
                                  "mount", Null, s2.ret),
                            Null, s2.ret, s.inst[instance].container),
                      Len(s1.reads)),
                 instance, s.inst[instance].initialVNode, s2.ret)))
    ELSE \* patch process
         Then(TakeNext(s, instance), LAMBDA s1 :
         Then(callRender(s1, instance), LAMBDA s2 :
         Then(normalizeVNode(s2, RefChild(s2.ret)), LAMBDA s3 :
         Then(hostParentNode(Noted(SetSubTree(s3, instance, s3.ret), Len(s2.reads),
                                   "patch", s.inst[instance].subTree, s3.ret),
                             s.vn[s.inst[instance].subTree].el), LAMBDA s4 :
         Then(patch(s4, s.inst[instance].subTree, s3.ret, s4.ret), LAMBDA s5 :
         SetEl(Done(s5, Len(s2.reads)), s1.inst[instance].vnode,
               ElOf(s5, s3.ret)))))))

\* activeEffect = parent
Restored(s, parent) == IF Ok(s) THEN [ s EXCEPT !.active = parent ] ELSE s

\* A variant of run in which the effect keeps its old dependency sets
run_noCleanup(s, effect) ==
    IF ~Ok(s) THEN s
    ELSE Restored(
           IF effect = RootEffect
           THEN rootUpdateComponent([ s EXCEPT !.active = effect ])
           ELSE componentUpdateFn([ s EXCEPT !.active = effect ], effect),
           s.active)

\* ReactiveEffect.run(): the effect becomes the active one, leaves its old
\* dependency sets and runs its function, which is componentUpdateFn of the
\* instance, or updateComponent of the component-less render()
run(s, effect) ==
    IF ~Ok(s) THEN s
    ELSE Restored(
           IF effect = RootEffect
           THEN rootUpdateComponent(cleanupEffect([ s EXCEPT !.active = effect ], effect))
           ELSE componentUpdateFn(cleanupEffect([ s EXCEPT !.active = effect ], effect),
                                  effect),
           s.active)

\* A variant of updateComponent that calls the definition's setup again
updateComponent_setupAgain(s, n1, n2) ==
    IF ~Ok(s) THEN s
    ELSE IF n1 = Undef THEN Throw(s, "TypeError")
    ELSE IF IsNullish(ComponentOf(s, n1))
    THEN Throw([ s EXCEPT !.vn[n2].component = ComponentOf(s, n1) ], "TypeError")
    ELSE run(callSetup([ s EXCEPT !.vn[n2].component = ComponentOf(s, n1),
                                  !.inst[ComponentOf(s, n1)].next = n2 ],
                       ComponentOf(s, n1), s.vn[n2].tag),
             ComponentOf(s, n1))

updateComponent(s, n1, n2) ==
    IF ~Ok(s) THEN s
    ELSE IF n1 = Undef THEN Throw(s, "TypeError")
    ELSE IF IsNullish(ComponentOf(s, n1))
    THEN Throw([ s EXCEPT !.vn[n2].component = ComponentOf(s, n1) ], "TypeError")
    ELSE run([ s EXCEPT !.vn[n2].component = ComponentOf(s, n1),
                        !.inst[ComponentOf(s, n1)].next = n2 ],
             ComponentOf(s, n1))

\* The root render function returned by createRenderer
render(s, rootComponent, container) ==
    Then(createVNode(s, "Component", rootComponent, Props(<< >>), "", << >>), LAMBDA s1 :
         patch(s1, Null, s1.ret, container))

----------------------------------------------------------------------------
(* runtime-core: the component-less renderer, whose patch, processText,     *)
(* processElement, mountElement, mountChildren, patchElement and            *)
(* patchChildren are the ones above                                         *)

Container == 1

\* componentRender(): the render function that the root's setup returned
componentRender(s) ==
    IF ~Ok(s) THEN s
    ELSE h(trackAll([ s EXCEPT !.rendered = Append(@, RootEffect),
                               !.reads = Append(@, Read(RootEffect,
                                                        DefReads(s.root, s.px))) ],
                    DefReads(s.root, s.px), 1),
           DefTree(s.root, s.px, << >>))

rootUpdateComponent(s) ==
    Then(componentRender(s), LAMBDA s1 :
    Then(patch(Noted(s1, Len(s1.reads), IF s.n1 = Null THEN "mount" ELSE "patch",
                     s.n1, s1.ret),
               s.n1, s1.ret, Container), LAMBDA s2 :
    IF Ok(s2) THEN [ Done(s2, Len(s1.reads)) EXCEPT !.n1 = s1.ret ] ELSE s2))

\* rootComponent.setup!() throws when the definition has no setup
rootRender(s, rootComponent, container) ==
    IF ~HasSetup(rootComponent) THEN Throw(s, "TypeError")
    ELSE run(s, RootEffect)

----------------------------------------------------------------------------
(* reactivity: writing a property of the reactive state *)

RECURSIVE runAll(_, _, _)
runAll(s, effects, i) ==
    IF ~Ok(s) \/ i > Len(effects) THEN s
    ELSE runAll(run(s, effects[i]), effects, i + 1)

\* trigger(target, key): run the effects subscribed when the write happened
trigger(s, key) == runAll(s, s.deps[key], 1)

\* A variant of set that triggers whether or not the value changes
set_always(s, key, value) ==
    IF ~Ok(s) THEN s
    ELSE trigger([ s EXCEPT !.px[key] = value ], key)

\* The proxy's set trap
set(s, key, value) ==
    IF ~Ok(s) \/ s.px[key] = value THEN s
    ELSE trigger([ s EXCEPT !.px[key] = value ], key)

----------------------------------------------------------------------------
(* The DOM dispatching an event to an element *)

\* The invoker is (e) => { invoker.value(e) }
invoke(s, invoker) == [ s EXCEPT !.handled = Append(@, s.inv[invoker].value) ]

RECURSIVE dispatchEvent(_, _, _, _)
dispatchEvent(s, el, event, i) ==
    IF i > Len(s.nd[el].listeners) THEN s
    ELSE dispatchEvent(
           IF s.nd[el].listeners[i].event = event
           THEN invoke(s, s.nd[el].listeners[i].invoker) ELSE s,
           el, event, i + 1)

----------------------------------------------------------------------------
(* The state machine *)

\* The machine state an operation starts from: the heaps as they are, and
\* empty records of the operation's own calls
Cur ==
    [ vn |-> vnodes, nd |-> nodes, inv |-> invokers, inst |-> instances,
      px |-> proxy, deps |-> depStore, active |-> activeEffect,
      root |-> rootDef, n1 |-> rootN1,
      log |-> << >>, dom |-> << >>, trace |-> << >>, rendered |-> << >>,
      handled |-> << >>, fault |-> "none", ret |-> Null, acc |-> << >>,
      reads |-> readLog ]

Commit(s) ==
    /\ vnodes' = s.vn
    /\ nodes' = s.nd
    /\ invokers' = s.inv
    /\ instances' = s.inst
    /\ proxy' = s.px
    /\ depStore' = s.deps
    /\ activeEffect' = s.active
    /\ rootN1' = s.n1
    /\ log' = s.log
    /\ domLog' = s.dom
    /\ trace' = s.trace
    /\ rendered' = s.rendered
    /\ handled' = s.handled
    /\ fault' = s.fault
    /\ readLog' = s.reads

Op(op, pkeys, changed, key, value, hadInvoker) ==
    [ op |-> op, pkeys |-> pkeys, changed |-> changed, key |-> key,
      value |-> value, hadInvoker |-> hadInvoker ]

\* The reactive state that the root definition's setup makes
InitialProxy(def) ==
    { px \in [ view : ValuesOf(def, "view"), flag : Flags, a : Letters, b : Letters,
               c : { "a" } ] :
        \A k \in ProxyKeys \ StateKeys(def) :
            px[k] = (CHOOSE v \in ValuesOf(def, k) : TRUE) }

InitHeaps ==
    /\ vnodes = << >>
    /\ invokers = << >>
    /\ instances = << >>
    /\ depStore = [ k \in ProxyKeys |-> << >> ]
    /\ activeEffect = Null
    /\ rootN1 = Null
    /\ log = << >>
    /\ domLog = << >>
    /\ trace = << >>
    /\ rendered = << >>
    /\ handled = << >>
    /\ fault = "none"
    /\ lastOp = Op("none", << >>, << >>, << >>, "", FALSE)
    /\ ncalls = 0
    /\ readLog = << >>
    /\ latest = [ rawName \in EventNames |-> NoCall ]

\* The application is about to call the renderer with components, or the
\* component-less one
Init ==
    /\ \/ pc = "start" /\ rootDef \in RootDefs
       \/ pc = "startRoot" /\ rootDef \in LegacyDefs
    /\ proxy \in InitialProxy(rootDef)
    /\ nodes = << NewNode("element", "#app", "") >>
    /\ InitHeaps

\* The application calls render(rootComponent, container)
Render ==
    /\ pc = "start"
    /\ Commit(render(Cur, rootDef, Container))
    /\ lastOp' = Op("render", << >>, << >>, << >>, "", FALSE)
    /\ pc' = "live"
    /\ UNCHANGED << rootDef, ncalls, latest >>

\* The application assigns a property of the reactive state
Write ==
    /\ pc \in { "live", "liveRoot" }
    /\ ncalls < MaxOps
    /\ \E key \in StateKeys(rootDef) : \E value \in ValuesOf(rootDef, key) :
          /\ Commit(set(Cur, key, value))
          /\ lastOp' = Op("write", << key >>, << proxy[key] # value >>, << >>, "", FALSE)
    /\ ncalls' = ncalls + 1
    /\ UNCHANGED << rootDef, pc, latest >>

\* The application assigns two properties one after the other in one
\* synchronous block
Block ==
    /\ pc \in { "live", "liveRoot" }
    /\ ncalls < MaxOps
    /\ \E pair \in BlockKeys(rootDef) :
       \E v1 \in ValuesOf(rootDef, pair[1]) : \E v2 \in ValuesOf(rootDef, pair[2]) :
          /\ Commit(set(set(Cur, pair[1], v1), pair[2], v2))
          /\ lastOp' = Op("block", pair, << proxy[pair[1]] # v1, proxy[pair[2]] # v2 >>,
                          << >>, "", FALSE)
    /\ ncalls' = ncalls + 1
    /\ UNCHANGED << rootDef, pc, latest >>

\* The application calls the component-less render(rootComponent, container)
RenderRoot ==
    /\ pc = "startRoot"
    /\ Commit(rootRender(Cur, rootDef, Container))
    /\ lastOp' = Op("render", << >>, << >>, << >>, "", FALSE)
    /\ pc' = "liveRoot"
    /\ UNCHANGED << rootDef, ncalls, latest >>

Next == Render \/ RenderRoot \/ Write \/ Block

Spec == Init /\ [][Next]_vars

----------------------------------------------------------------------------
(* The state machines of the DOM adapter: one element, patched directly *)

El == 2

InitDom ==
    /\ rootDef = "none"
    /\ proxy \in InitialProxy("none")
    /\ nodes = << NewNode("element", "#app", ""),
                  [ NewNode("element", "div", "") EXCEPT !.parent = Container ] >>
    /\ pc = "dom"
    /\ InitHeaps

PatchEvent ==
    /\ pc = "dom"
    /\ ncalls < MaxDomCalls
    /\ \E rawName \in EventNames : \E value \in DomValues :
          /\ Commit(patchEvent(Cur, El, rawName, value))
          /\ lastOp' = Op("patchEvent", << >>, << >>, rawName, value,
                          ~IsNullish(Get(nodes[El].vei, rawName, Undef)))
          /\ latest' = [ latest EXCEPT ![rawName] = value ]
    /\ ncalls' = ncalls + 1
    /\ UNCHANGED << rootDef, pc >>

Dispatch ==
    /\ pc = "dom"
    /\ ncalls < MaxDomCalls
    /\ \E event \in { parseName(rawName) : rawName \in EventNames } :
          /\ Commit(dispatchEvent(Cur, El, event, 1))
          /\ lastOp' = Op("dispatch", << >>, << >>, event, "", FALSE)
    /\ ncalls' = ncalls + 1
    /\ UNCHANGED << rootDef, pc, latest >>

NextEvents == PatchEvent \/ Dispatch

SpecEvents == InitDom /\ [][NextEvents]_vars

\* One call of patchProp(el, key, value)
PatchProp ==
    /\ pc = "dom"
    /\ \E key \in DomKeys : \E value \in DomValues :
          /\ Commit(patchProp(Cur, El, key, value))
          /\ lastOp' = Op("patchProp", << >>, << >>, key, value,
                          ~IsNullish(Get(nodes[El].vei, key, Undef)))
    /\ pc' = "done"
    /\ UNCHANGED << rootDef, ncalls, latest >>

NextProp == PatchProp

SpecProp == InitDom /\ [][NextProp]_vars

----------------------------------------------------------------------------
(* What the last operation did, read from trace and log *)

\* The host calls made between the entry and the return of a patch call
Segment(t) == SubSeq(log, t.from + 1, t.to)

Completed(t) == t.to >= 0

\* patch(n1, n2, container) of a Text vnode against a mounted Text vnode
IsTextPatch(t) ==
    /\ t.n1 > 0
    /\ vnodes[t.n2].type = "Text"
    /\ vnodes[t.n1].type = "Text"
    /\ vnodes[t.n1].el > 0

----------------------------------------------------------------------------
(* Claims *)

\* C1 (text patch minimality): every patch of a Text vnode n2 against a mounted
\* Text vnode n1 returns having made no host call when the payloads are equal,
\* and exactly one, setText(n1.el, n2's payload), when they differ; so it
\* makes no createText and no insert.
C1_TextPatchMinimality ==
    \A i \in 1..Len(trace) :
        IsTextPatch(trace[i]) =>
            /\ Completed(trace[i])
            /\ Segment(trace[i]) =
                 IF vnodes[trace[i].n2].text = vnodes[trace[i].n1].text
                 THEN << >>
                 ELSE << Call("setText", vnodes[trace[i].n1].el, Null, << >>,
                              vnodes[trace[i].n2].text) >>

\* One operation patched a text with an equal payload and one with another
C1_Witness ==
    \E i, j \in 1..Len(trace) :
        /\ IsTextPatch(trace[i])
        /\ IsTextPatch(trace[j])
        /\ vnodes[trace[i].n2].text = vnodes[trace[i].n1].text
        /\ vnodes[trace[j].n2].text # vnodes[trace[j].n1].text
        /\ Segment(trace[j]) # << >>

\* patchElement(n1, n2) of a mounted element vnode n1
IsElementPatch(t) ==
    /\ t.n1 > 0
    /\ vnodes[t.n2].type = "Element"
    /\ vnodes[t.n1].type = "Element"
    /\ vnodes[t.n1].el > 0

\* How many times the patch called hostPatchProp(el, key, ...)
PatchPropCalls(t, el, key) ==
    Cardinality({ k \in t.from + 1 .. t.to :
                    log[k].op = "patchProp" /\ log[k].node = el /\ log[k].key = key })

\* n1 has the key, with a value identical to the given one
HasIdentical(n1, key, value) ==
    /\ vnodes[n1].props.present
    /\ HasKey(vnodes[n1].props.entries, key)
    /\ Get(vnodes[n1].props.entries, key, JsUndefined) = value

\* C2 (prop patch minimality): when a mounted element n1 is patched with n2,
\* hostPatchProp is called exactly once for each key of n2's props whose value
\* is not identical to n1's value for the key, keys that n1 does not have
\* included, and never for a key whose value is identical to n1's.
C2_PropPatchMinimality ==
    \A i \in 1..Len(trace) :
        IsElementPatch(trace[i]) /\ Completed(trace[i]) =>
            \A j \in 1..Len(vnodes[trace[i].n2].props.entries) :
                LET entry == vnodes[trace[i].n2].props.entries[j]
                IN PatchPropCalls(trace[i], vnodes[trace[i].n1].el, entry.key) =
                     IF HasIdentical(trace[i].n1, entry.key, entry.value) THEN 0 ELSE 1

\* mountElement(n2, container)
IsElementMount(t) == t.n1 = Null /\ vnodes[t.n2].type = "Element"

\* The patch call of the last operation whose new vnode is n2
TraceOf(n2) == trace[CHOOSE i \in 1..Len(trace) : trace[i].n2 = n2]

\* Where in log the mount of the first j children of t's element ends
ChildrenEnd(t, j) ==
    IF j = 0 THEN t.from + 1 ELSE TraceOf(vnodes[t.n2].children[j].ref).to

EntriesOf(props) == IF props.present THEN props.entries ELSE << >>

\* C3 (mount ordering): a completed mount of an element makes, in this order,
\* one createElement with the tag; the mount of every child into the new host
\* element, left to right, each starting where the one before ended, a text
\* child being one createText and one insert into the element; one patchProp
\* per prop in the prop set's key order; and last the only insert of the
\* element, into its parent.
C3_MountOrdering ==
    \A i \in 1..Len(trace) :
        IsElementMount(trace[i]) /\ Completed(trace[i]) =>
            LET t == trace[i]
                v == vnodes[t.n2]
                n == Len(v.children)
                props == EntriesOf(v.props)
            IN /\ log[t.from + 1] = Call("createElement", v.el, Null, << >>, v.tag)
               /\ \A j \in 1..n :
                     /\ ~v.children[j].raw
                     /\ \E k \in 1..Len(trace) : trace[k].n2 = v.children[j].ref
                     /\ LET tc == TraceOf(v.children[j].ref)
                            c == vnodes[tc.n2]
                        IN /\ tc.n1 = Null
                           /\ tc.container = v.el
                           /\ Completed(tc)
                           /\ tc.from = ChildrenEnd(t, j - 1)
                           /\ c.type = "Text" =>
                                Segment(tc) =
                                  << Call("createText", c.el, Null, << >>, c.text),
                                     Call("insert", c.el, v.el, << >>, "") >>
               /\ \A j \in 1..Len(props) :
                     log[ChildrenEnd(t, n) + j] =
                       Call("patchProp", v.el, Null, props[j].key, props[j].value)
               /\ t.to = ChildrenEnd(t, n) + Len(props) + 1
               /\ log[t.to] = Call("insert", v.el, t.container, << >>, "")
               /\ Cardinality({ k \in t.from + 1 .. t.to :
                                  log[k].op = "insert" /\ log[k].node = v.el }) = 1

\* An element with three children was mounted, and so was its second child,
\* an element with two props
C3_Witness ==
    /\ \E i \in 1..Len(trace) :
          /\ IsElementMount(trace[i]) /\ Completed(trace[i])
          /\ Len(vnodes[trace[i].n2].children) = 3
    /\ \E i \in 1..Len(trace) :
          /\ IsElementMount(trace[i]) /\ Completed(trace[i])
          /\ vnodes[trace[i].n2].tag = "span"
          /\ Len(EntriesOf(vnodes[trace[i].n2].props)) = 2

\* The last operation wrote the reactive state and a mounted component
\* rendered again
IsReRender == lastOp.op \in { "write", "block" } /\ Len(trace) > 0

\* Every patch call of the last operation had an old vnode of the same type
\* as the new one, with a child list of the same length
SameShape ==
    \A i \in 1..Len(trace) :
        /\ trace[i].n1 > 0
        /\ vnodes[trace[i].n1].type = vnodes[trace[i].n2].type
        /\ vnodes[trace[i].n1].tag = vnodes[trace[i].n2].tag
        /\ Len(vnodes[trace[i].n1].children) = Len(vnodes[trace[i].n2].children)

\* The text patches of the last operation whose payload differs from the old
Retexted ==
    { i \in 1..Len(trace) :
        /\ IsTextPatch(trace[i])
        /\ vnodes[trace[i].n2].text # vnodes[trace[i].n1].text }

\* One write made a same-shape re-render in which one text payload changed
\* and every prop of every element kept its value
OneTextChanged ==
    /\ lastOp.op = "write"
    /\ Len(trace) > 0
    /\ SameShape
    /\ Cardinality(Retexted) = 1
    /\ \A i \in 1..Len(trace) :
          vnodes[trace[i].n2].type = "Element" =>
              \A j \in 1..Len(EntriesOf(vnodes[trace[i].n2].props)) :
                  HasIdentical(trace[i].n1, vnodes[trace[i].n2].props.entries[j].key,
                               vnodes[trace[i].n2].props.entries[j].value)

\* setText(n1.el, the new payload) of the one text patch that changed it
TheSetText ==
    LET t == trace[CHOOSE i \in Retexted : TRUE]
    IN Call("setText", vnodes[t.n1].el, Null, << >>, vnodes[t.n2].text)

IsCreation(call) == call.op \in { "createElement", "createText", "insert" }

NotParentNode(call) == call.op # "parentNode"

IsInstance(effect) == effect # RootEffect

\* C4 as stated: a re-render that changes exactly one text payload makes one
\* setText call with the new payload and no other host call.
C4_OnlySetText == OneTextChanged => log = << TheSetText >>

\* C4 (re-render creates nothing): a same-shape re-render makes no
\* createElement, createText or insert call; a re-render that changes exactly
\* one text payload makes one setText call with the new payload, and its only
\* other host calls are the parentNode queries, one by each component
\* instance that renders again (none by the component-less renderer).
C4_ReRenderCreatesNothing ==
    /\ IsReRender /\ SameShape =>
          \A k \in 1..Len(log) : ~IsCreation(log[k])
    /\ OneTextChanged =>
          /\ SelectSeq(log, NotParentNode) = << TheSetText >>
          /\ Len(log) = 1 + Len(SelectSeq(rendered, IsInstance))

\* A parent's re-render pushed a new prop to a child component, whose text
\* was the one payload that changed
C4_Witness ==
    /\ OneTextChanged
    /\ Len(SelectSeq(rendered, IsInstance)) = 2
    /\ Len(log) = 3

\* The render function of the definition reads the property whatever the
\* reactive state is
AlwaysReads(def, key) ==
    \A f \in Flags : \E k \in 1..Len(DefReads(def, [ flag |-> f ])) :
        DefReads(def, [ flag |-> f ])[k] = key

\* The last operation was two writes in one synchronous block, to two
\* properties that the root's render function reads, each changing the value
TwoWritesBothRead ==
    /\ lastOp.op = "block"
    /\ lastOp.changed = << TRUE, TRUE >>
    /\ AlwaysReads(rootDef, lastOp.pkeys[1])
    /\ AlwaysReads(rootDef, lastOp.pkeys[2])

IsComponentUpdate(t) ==
    /\ vnodes[t.n2].type = "Component"
    /\ t.n1 > 0
    /\ vnodes[t.n1].component > 0

\* C6 (parent-driven component update): when patch of a component vnode n2
\* against a mounted component vnode n1 returns, no instance was made for
\* n2, n2.component is n1's instance, that instance rendered, its next is
\* null, its vnode is n2, and n2.el is the host reference of its subTree.
C6_ParentDrivenUpdate ==
    \A i \in 1..Len(trace) :
        IsComponentUpdate(trace[i]) /\ Completed(trace[i]) =>
            LET n1 == trace[i].n1
                n2 == trace[i].n2
                instance == vnodes[n1].component
            IN /\ \A k \in 1..Len(instances) : instances[k].initialVNode # n2
               /\ vnodes[n2].component = instance
               /\ \E k \in 1..Len(rendered) : rendered[k] = instance
               /\ instances[instance].next = Null
               /\ instances[instance].vnode = n2
               /\ instances[instance].subTree > 0
               /\ vnodes[n2].el = vnodes[instances[instance].subTree].el

\* A parent rendered again with a new prop for its child component, and the
\* child's instance took the new vnode and the new prop
C6_Witness ==
    \E i \in 1..Len(trace) :
        /\ IsComponentUpdate(trace[i]) /\ Completed(trace[i])
        /\ vnodes[trace[i].n1].props # vnodes[trace[i].n2].props
        /\ instances[vnodes[trace[i].n1].component].vnode = trace[i].n2
        /\ instances[vnodes[trace[i].n1].component].props =
             vnodes[trace[i].n2].props.entries

\* The patch calls of the last operation that mounted into the container:
\* render() with components mounts the root component's vnode, and the
\* component-less render() mounts the root's tree
RootMounts ==
    { i \in 1..Len(trace) :
        /\ trace[i].n1 = Null
        /\ trace[i].container = Container
        /\ pc = "live" => vnodes[trace[i].n2].type = "Component" }

\* C7 (setup runs once): setup of the definition has been called once for
\* every instance that has rendered, however many times it rendered, and for
\* no instance more than once; a call of the root render entry point makes
\* one mount into the container, of one instance of the root component.
C7_SetupRunsOnce ==
    /\ \A k \in 1..Len(instances) :
          /\ instances[k].setupCalls <= 1
          /\ instances[k].renderCalls > 0 => instances[k].setupCalls = 1
          /\ HasSetup(vnodes[instances[k].initialVNode].tag) =>
                instances[k].setupCalls = 1
    /\ lastOp.op = "render" /\ fault = "none" =>
          /\ Cardinality(RootMounts) = 1
          /\ pc = "live" =>
                /\ vnodes[trace[1].n2].tag = rootDef
                /\ Cardinality({ k \in 1..Len(instances) :
                                   instances[k].container = Container }) = 1

\* A child component rendered at mount, again when its own reactive state
\* was written, and again when its parent pushed a new prop
C7_Witness ==
    \E k \in 1..Len(instances) :
        /\ instances[k].renderCalls = 3
        /\ instances[k].setupCalls = 1
        /\ instances[k].container # Container
        /\ proxy.c # "a"
        /\ instances[k].props # vnodes[instances[k].initialVNode].props.entries

\* patch(null, n2, container) of a component whose definition has no setup
IsBareMount(t) ==
    /\ t.n1 = Null
    /\ vnodes[t.n2].type = "Component"
    /\ ~HasSetup(vnodes[t.n2].tag)

\* C8 (configuration fault): mounting a component whose definition has no
\* setup ends the operation with a fault that reaches the caller; the patch
\* call does not return, no host call is made after it was entered, and the
\* instance made for it has no render function, never rendered and is not
\* mounted. The component-less render() of such a definition faults before
\* any patch call or host call.
C8_ConfigurationFault ==
    /\ \A i \in 1..Len(trace) :
          IsBareMount(trace[i]) =>
              /\ fault = "TypeError"
              /\ ~Completed(trace[i])
              /\ Len(log) = trace[i].from
              /\ vnodes[trace[i].n2].component > 0
              /\ instances[vnodes[trace[i].n2].component].render = ""
    /\ \A k \in 1..Len(instances) :
          ~HasSetup(vnodes[instances[k].initialVNode].tag) =>
              /\ ~instances[k].isMounted
              /\ instances[k].renderCalls = 0
              /\ instances[k].subTree = Null
    /\ lastOp.op = "render" /\ ~HasSetup(rootDef) =>
          /\ fault = "TypeError"
          /\ log = << >>
          /\ pc = "liveRoot" => trace = << >> /\ vnodes = << >>

\* The root rendered a tree whose third child is a component with no setup:
\* the two children before it were mounted, then the mount of the third faulted
C8_Witness ==
    /\ lastOp.op = "render"
    /\ Len(log) > 0
    /\ fault = "TypeError"
    /\ \E i \in 1..Len(trace) :
          /\ IsBareMount(trace[i])
          /\ trace[i].container # Container
          /\ ~instances[vnodes[trace[i].n2].component].isMounted

\* The host listeners of the element that patchEvent registered for rawName
ListenersFor(rawName) ==
    { i \in 1..Len(nodes[El].listeners) :
        invokers[nodes[El].listeners[i].invoker].rawName = rawName }

\* el._vei[rawName]
InvokerFor(rawName) == Get(nodes[El].vei, rawName, Undef)

\* C9 (event listener invariant): after any sequence of patchEvent calls on
\* one element, for every rawName the element has one host listener of the
\* rawName if the latest value passed for it was a handler and none if it was
\* null or no call was made; never two; el._vei[rawName] is defined exactly
\* when the listener is registered, and then the listener is that invoker,
\* registered for the parsed event name and holding the latest handler; a
\* call with null when no invoker exists makes no listener call.
C9_EventListenerInvariant ==
    pc = "dom" =>
        /\ \A rawName \in EventNames :
              /\ Cardinality(ListenersFor(rawName)) =
                   IF latest[rawName] \in { NoCall, JsNull } THEN 0 ELSE 1
              /\ ~IsNullish(InvokerFor(rawName)) <=>
                   Cardinality(ListenersFor(rawName)) = 1
              /\ \A i \in ListenersFor(rawName) :
                    /\ nodes[El].listeners[i].invoker = InvokerFor(rawName)
                    /\ nodes[El].listeners[i].event = parseName(rawName)
                    /\ invokers[InvokerFor(rawName)].value = latest[rawName]
        /\ lastOp.op = "patchEvent" /\ lastOp.value = JsNull /\ ~lastOp.hadInvoker =>
              domLog = << DomCall("patchEvent", El, lastOp.key, JsNull, Null) >>

\* A handler was set, replaced, removed and set again for onClick: the
\* element has the one listener of the second invoker, with the last handler
C9_Witness ==
    /\ pc = "dom"
    /\ ncalls = 4
    /\ lastOp.op = "patchEvent"
    /\ lastOp.key = K_onClick
    /\ Len(invokers) = 2
    /\ invokers[1].rawName = K_onClick
    /\ invokers[1].value # invokers[2].value
    /\ InvokerFor(K_onClick) = 2
    /\ Cardinality(ListenersFor(K_onClick)) = 1
    /\ latest[K_onCLICK] = NoCall

\* The key starts with "on" immediately followed by a character that is
\* not a lowercase letter a-z
IsEventKey(key) ==
    /\ Len(key) > 2
    /\ SubSeq(key, 1, 2) = << "o", "n" >>
    /\ ~(key[3] \in LowerAZ)

IsRouted(call) == call.op \in { "patchEvent", "patchAttr" }

\* C10 (prop routing): a call patchProp(el, key, value) makes one call of
\* patchEvent or patchAttr and not both, with the same el, key and value:
\* patchEvent when the key starts with "on" followed by a character that is
\* not a lowercase letter, patchAttr otherwise, as for "on" and "onclick".
C10_PropRouting ==
    lastOp.op = "patchProp" =>
        /\ SelectSeq(domLog, IsRouted) =
             << DomCall(IF IsEventKey(lastOp.key) THEN "patchEvent" ELSE "patchAttr",
                        El, lastOp.key, lastOp.value, Null) >>
        /\ lastOp.key \in { K_on, K_onclick, K_id } => domLog[1].op = "patchAttr"
        /\ lastOp.key \in { K_onClick, K_onCLICK, << "o", "n", "-" >> } =>
              domLog[1].op = "patchEvent"

\* patchProp(el, "onclick", handler) set the attribute onclick and registered
\* no listener
C10_Witness ==
    /\ lastOp.op = "patchProp"
    /\ lastOp.key = K_onclick
    /\ lastOp.value = "h1"
    /\ domLog = << DomCall("patchAttr", El, K_onclick, "h1", Null) >>
    /\ nodes[El].listeners = << >>
    /\ nodes[El].attrs = << [ key |-> K_onclick, value |-> "h1" ] >>

\* The runs of render functions made before the last operation
Earlier == SubSeq(readLog, 1, Len(readLog) - Len(rendered))

\* The runs of one effect's render function made before the last operation
RunsOf(effect) == SelectSeq(Earlier, LAMBDA r : r.effect = effect)

HasRead(r, key) == \E i \in 1..Len(r.keys) : r.keys[i] = key

\* The last two runs of the effect before the last operation: the earlier
\* read property a and not b, the later read b and not a
Switched(effect, a, b) ==
    LET runs == RunsOf(effect)
        n == Len(runs)
    IN /\ n >= 2
       /\ HasRead(runs[n - 1], a) /\ ~HasRead(runs[n - 1], b)
       /\ HasRead(runs[n], b) /\ ~HasRead(runs[n], a)

\* The last operation was one write that changed the property
Wrote(key) ==
    /\ lastOp.op = "write"
    /\ lastOp.pkeys = << key >>
    /\ lastOp.changed = << TRUE >>

TimesRendered(effect) == Len(SelectSeq(rendered, LAMBDA e : e = effect))

\* C11 (stale-dependency cleanup): when the render function of an effect read
\* a and not b on one run and b and not a on its next run, a write that then
\* changes a does not run it, makes no host call and leaves the effect out
\* of a's dependency set, and a write that then changes b runs it once.
C11_StaleDependencyCleanup ==
    \A r \in { readLog[i] : i \in 1..Len(readLog) } :
    \A a, b \in ProxyKeys :
        Switched(r.effect, a, b) =>
            /\ Wrote(a) =>
                  /\ TimesRendered(r.effect) = 0
                  /\ log = << >>
                  /\ trace = << >>
                  /\ \A i \in 1..Len(depStore[a]) : depStore[a][i] # r.effect
            /\ Wrote(b) => TimesRendered(r.effect) = 1

\* The component Cond rendered its a, then its b after flag was written, and
\* then a was written
C11_Witness ==
    /\ pc = "live"
    /\ rootDef = "Cond"
    /\ Switched(1, "a", "b")
    /\ Wrote("a")
    /\ rendered = << >>

\* The last operation was one write of the value the property already had
WroteEqual(key) ==
    /\ lastOp.op = "write"
    /\ lastOp.pkeys = << key >>
    /\ lastOp.changed = << FALSE >>

\* C12 (write no-op on equal value): a write of the value that the property
\* already holds runs no render function and makes no patch call and no host
\* call, whatever effects are subscribed to the property.
C12_WriteNoOpOnEqualValue ==
    \A key \in ProxyKeys :
        WroteEqual(key) =>
            /\ rendered = << >>
            /\ trace = << >>
            /\ log = << >>
            /\ domLog = << >>
            /\ fault = "none"

\* The mounted component Pair reads a, and a was written with the value it had
C12_Witness ==
    /\ pc = "live"
    /\ rootDef = "Pair"
    /\ WroteEqual("a")
    /\ depStore["a"] = << 1 >>
    /\ instances[1].isMounted
    /\ rendered = << >>

\* All the runs of the render function of one effect, oldest first
AllRunsOf(effect) == SelectSeq(readLog, LAMBDA r : r.effect = effect)

\* A run before run j took the mount branch and its patch call returned
MountedBefore(runs, j) ==
    \E i \in 1..(j - 1) : runs[i].branch = "mount" /\ runs[i].done

\* The runs that the last operation made
RecentRuns == Len(readLog) - Len(rendered) + 1 .. Len(readLog)

\* C13 (mount-once lifecycle): an instance is mounted exactly when one of its
\* runs took the mount branch and completed patch(null, subTree, container);
\* a run takes the mount branch exactly when no run before it did so, and
\* otherwise the patch branch, in which the tree it diffs against is the one
\* that the run before it stored in instance.subTree; the patch call of a
\* completed run has these trees as n1 and n2.
C13_MountOnceLifecycle ==
    /\ \A k \in 1..Len(instances) :
          LET runs == AllRunsOf(k)
          IN /\ instances[k].isMounted <=> MountedBefore(runs, Len(runs) + 1)
             /\ Len(runs) = instances[k].renderCalls
             /\ \A j \in 1..Len(runs) :
                   /\ runs[j].branch = IF MountedBefore(runs, j) THEN "patch" ELSE "mount"
                   /\ runs[j].branch = "mount" => runs[j].prev = Null
                   /\ runs[j].branch = "patch" => runs[j].prev = runs[j - 1].tree
             /\ Len(runs) > 0 => instances[k].subTree = runs[Len(runs)].tree
    /\ \A j \in RecentRuns :
          readLog[j].done =>
              \E i \in 1..Len(trace) :
                  /\ trace[i].n1 = readLog[j].prev
                  /\ trace[i].n2 = readLog[j].tree
                  /\ Completed(trace[i])

\* The first mount of the root faulted, a write made it mount again, with
\* success, and the next write made it patch
C13_Witness ==
    /\ Len(AllRunsOf(1)) = 3
    /\ AllRunsOf(1)[1].branch = "mount" /\ ~AllRunsOf(1)[1].done
    /\ AllRunsOf(1)[2].branch = "mount" /\ AllRunsOf(1)[2].done
    /\ AllRunsOf(1)[3].branch = "patch" /\ AllRunsOf(1)[3].done
    /\ instances[1].isMounted

\* patch(n1, n2, container) of a Text or element vnode against a mounted
\* vnode of the same type
IsHostPatch(t) ==
    /\ t.n1 > 0
    /\ vnodes[t.n2].type \in { "Text", "Element" }
    /\ vnodes[t.n1].type = vnodes[t.n2].type
    /\ vnodes[t.n1].el > 0

\* C14 (host-reference invariant): a completed patch of a Text or element
\* vnode n2 against a mounted vnode n1 leaves n2.el the host node of n1.el,
\* and a text patch creates no host node; after a completed run of an
\* instance, instance.vnode.el is instance.subTree.el; and every completed
\* patch run leaves the instance's tree on the host node of the tree before.
C14_HostReference ==
    /\ \A i \in 1..Len(trace) :
          IsHostPatch(trace[i]) /\ Completed(trace[i]) =>
              /\ vnodes[trace[i].n2].el = vnodes[trace[i].n1].el
              /\ vnodes[trace[i].n2].type = "Text" =>
                    \A k \in trace[i].from + 1 .. trace[i].to : ~IsCreation(log[k])
    /\ \A k \in 1..Len(instances) :
          LET runs == AllRunsOf(k)
          IN /\ Len(runs) > 0 /\ runs[Len(runs)].done =>
                   /\ vnodes[instances[k].subTree].el > 0
                   /\ vnodes[instances[k].vnode].el = vnodes[instances[k].subTree].el
             /\ \A j \in 1..Len(runs) :
                   runs[j].branch = "patch" /\ runs[j].done =>
                       vnodes[runs[j].tree].el = vnodes[runs[j].prev].el

\* The component Pair was mounted and rendered again after each of two
\* writes: its vnode and its three trees have the host node of the mount
C14_Witness ==
    /\ pc = "live"
    /\ rootDef = "Pair"
    /\ Len(AllRunsOf(1)) = 3
    /\ \A j \in 1..3 :
          /\ AllRunsOf(1)[j].done
          /\ vnodes[AllRunsOf(1)[j].tree].el = vnodes[instances[1].vnode].el
    /\ AllRunsOf(1)[1].tree # AllRunsOf(1)[3].tree
    /\ \E i \in 1..Len(trace) :
          /\ IsHostPatch(trace[i])
          /\ vnodes[trace[i].n2].type = "Text"
          /\ vnodes[trace[i].n2].text # vnodes[trace[i].n1].text

\* patch(c1[i], child, container) with i past the end of the old child list
IsPastTheEnd(t) == t.n1 = Undef

\* C15 (longer new child list is mounted): a patch call for a new child at
\* an index past the end of the old child list returns without a fault,
\* having mounted the child: a text or an element has its new host node,
\* created first and inserted into the element's host node last, and a
\* component has a mounted instance.
C15_LongerListMounted ==
    \A i \in 1..Len(trace) :
        IsPastTheEnd(trace[i]) =>
            LET t == trace[i]
                v == vnodes[t.n2]
            IN /\ Completed(t)
               /\ fault = "none"
               /\ v.type \in { "Text", "Element" } =>
                     /\ v.el > 0
                     /\ log[t.from + 1].op \in { "createText", "createElement" }
                     /\ log[t.from + 1].node = v.el
                     /\ log[t.to] = Call("insert", v.el, t.container, << >>, "")
               /\ v.type = "Component" =>
                     /\ v.component > 0
                     /\ instances[v.component].isMounted

\* The old children of a patched element at indices past the end of the new
\* child list that were mounted
StaleChildren(t) ==
    { c \in { vnodes[t.n1].children[j].ref :
                j \in Len(vnodes[t.n2].children) + 1 .. Len(vnodes[t.n1].children) } :
        c > 0 /\ vnodes[c].el > 0 }

\* The host node of a vnode and the host nodes in it
HostNodesOf(vnode) ==
    { x \in 1..Len(nodes) :
        \/ x = vnodes[vnode].el
        \/ nodes[x].parent = vnodes[vnode].el }

\* C16 (shorter new child list leaves stale nodes): when a completed patch of
\* an element has a new child list shorter than the old one, no host call of
\* the operation has as its node or parent a host node of an old child past
\* the end of the new list, the host node of each such child is still a
\* child of the element's host node, and for every shared index the old
\* child was patched against the new child into the element's host node.
C16_ShorterListLeavesStale ==
    \A i \in 1..Len(trace) :
        IsElementPatch(trace[i]) /\ Completed(trace[i]) =>
            LET t == trace[i]
                el == vnodes[t.n1].el
            IN /\ \A c \in StaleChildren(t) :
                     /\ \E k \in 1..Len(nodes[el].children) :
                           nodes[el].children[k] = vnodes[c].el
                     /\ nodes[vnodes[c].el].parent = el
                     /\ \A k \in 1..Len(log) :
                           /\ log[k].node \notin HostNodesOf(c)
                           /\ log[k].parent \notin HostNodesOf(c)
               /\ \A j \in 1..Len(vnodes[t.n2].children) :
                     j <= Len(vnodes[t.n1].children) =>
                         \E k \in 1..Len(trace) :
                             /\ trace[k].n1 = vnodes[t.n1].children[j].ref
                             /\ trace[k].n2 = vnodes[t.n2].children[j].ref
                             /\ trace[k].container = el
                             /\ Completed(trace[k])

\* A div with a text, a span and a component was patched with a div of one
\* text: the span and the component's p are still in the div
C16_Witness ==
    \E i \in 1..Len(trace) :
        /\ IsElementPatch(trace[i]) /\ Completed(trace[i])
        /\ Len(vnodes[trace[i].n1].children) = 3
        /\ Len(vnodes[trace[i].n2].children) = 1
        /\ Cardinality(StaleChildren(trace[i])) = 2
        /\ Len(nodes[vnodes[trace[i].n2].el].children) = 3
        /\ vnodes[vnodes[trace[i].n2].children[1].ref].text #
             vnodes[vnodes[trace[i].n1].children[1].ref].text

\* The last operation was patchEvent with a handler while an invoker existed
\* for the rawName
IsSwap ==
    /\ lastOp.op = "patchEvent"
    /\ lastOp.value # JsNull
    /\ lastOp.hadInvoker

\* The listeners of the element for an event name, in registration order
ListenersOf(event) == SelectSeq(nodes[El].listeners, LAMBDA l : l.event = event)

\* C17 (handler swap in place): patchEvent with a handler while an invoker
\* exists for the rawName calls neither addEventListener nor
\* removeEventListener and leaves the one listener of the rawName, the
\* existing invoker, now holding the new handler; a dispatched event calls,
\* for each listener of its name, the latest handler passed for the
\* listener's rawName, once, and no earlier handler.
C17_HandlerSwapInPlace ==
    /\ IsSwap =>
          /\ domLog = << DomCall("patchEvent", El, lastOp.key, lastOp.value, Null) >>
          /\ \A i \in ListenersFor(lastOp.key) :
                /\ nodes[El].listeners[i].invoker = InvokerFor(lastOp.key)
                /\ invokers[InvokerFor(lastOp.key)].value = lastOp.value
          /\ Cardinality(ListenersFor(lastOp.key)) = 1
    /\ lastOp.op = "dispatch" =>
          /\ Len(handled) = Len(ListenersOf(lastOp.key))
          /\ \A i \in 1..Len(handled) :
                handled[i] = latest[invokers[ListenersOf(lastOp.key)[i].invoker].rawName]
          /\ domLog = << >>

\* onClick was given h1 and then h2 and a click was dispatched: the one
\* invoker made for h1 called h2 and nothing else
C17_Witness ==
    /\ lastOp.op = "dispatch"
    /\ Len(invokers) = 1
    /\ invokers[1].rawName = K_onClick
    /\ invokers[1].initialValue = "h1"
    /\ invokers[1].value = "h2"
    /\ handled = << "h2" >>

\* The entries of n1's props whose key n2's props do not have
DroppedProps(t) ==
    { e \in { EntriesOf(vnodes[t.n1].props)[j] :
                j \in 1..Len(EntriesOf(vnodes[t.n1].props)) } :
        ~HasKey(EntriesOf(vnodes[t.n2].props), e.key) }

\* The host element has the listener that patchEvent registers for the key
\* and the handler
HasListener(el, key, handler) ==
    /\ Get(nodes[el].vei, key, Undef) > 0
    /\ invokers[Get(nodes[el].vei, key, Undef)].value = handler
    /\ \E i \in 1..Len(nodes[el].listeners) :
          nodes[el].listeners[i] =
            [ event |-> parseName(key), invoker |-> Get(nodes[el].vei, key, Undef) ]

\* C18 (removed props are not patched): when a completed patch of a mounted
\* element has a key in the old props that the new props do not have, the
\* operation makes no patchProp call for the element and the key and no
\* attribute or listener call for it, and what the old props had put on the
\* host element for the key, the attribute or the listener with its handler,
\* is still there.
C18_RemovedPropsNotPatched ==
    \A i \in 1..Len(trace) :
        IsElementPatch(trace[i]) /\ Completed(trace[i]) =>
            \A e \in DroppedProps(trace[i]) :
                LET el == vnodes[trace[i].n1].el
                IN /\ \A m \in 1..Len(log) :
                         ~(log[m].op = "patchProp" /\ log[m].node = el
                             /\ log[m].key = e.key)
                   /\ \A m \in 1..Len(domLog) :
                         domLog[m].node = el =>
                             /\ domLog[m].key # e.key
                             /\ isOn(e.key) => domLog[m].key # parseName(e.key)
                   /\ e.value \notin { JsUndefined, JsNull } =>
                         IF isOn(e.key)
                         THEN HasListener(el, e.key, e.value)
                         ELSE Get(nodes[el].attrs, e.key, JsUndefined) = e.value

\* A div with onClick was patched with a div that has no onClick: the
\* re-render made no host call but parentNode, and the listener stays
C18_Witness ==
    \E i \in 1..Len(trace) :
        /\ IsElementPatch(trace[i]) /\ Completed(trace[i])
        /\ \E e \in DroppedProps(trace[i]) :
              /\ e.key = K_onClick
              /\ HasListener(vnodes[trace[i].n1].el, K_onClick, e.value)
        /\ log = << Call("parentNode", vnodes[trace[i].n1].el, Null, << >>, "") >>

\* The tree of the last run of the effect whose patch call returned
LastGoodTree(effect) ==
    LET runs == AllRunsOf(effect)
    IN runs[CHOOSE j \in 1..Len(runs) :
                /\ runs[j].done
                /\ \A i \in (j + 1)..Len(runs) : ~runs[i].done].tree

RECURSIVE HostRefsSet(_)
\* Every vnode of the tree has its host node
HostRefsSet(vnode) ==
    /\ vnode > 0
    /\ vnodes[vnode].el > 0
    /\ \A j \in 1..Len(vnodes[vnode].children) :
          /\ ~vnodes[vnode].children[j].raw
          /\ HostRefsSet(vnodes[vnode].children[j].ref)

\* C19 (fault during re-render keeps the last good tree): the tree recorded
\* as the previous subtree of a mounted instance, or n1 of the
\* component-less render(), is the tree of the last run whose patch call
\* returned, every vnode of it has its host node, and a run whose patch call
\* did not return left a fault to the caller.
C19_FaultKeepsLastGoodTree ==
    /\ \A k \in 1..Len(instances) :
          instances[k].isMounted =>
              /\ instances[k].subTree = LastGoodTree(k)
              /\ HostRefsSet(instances[k].subTree)
    /\ rootN1 # Null =>
          /\ rootN1 = LastGoodTree(RootEffect)
          /\ HostRefsSet(rootN1)
    /\ \A j \in RecentRuns : ~readLog[j].done => fault = "TypeError"

====
